---- MODULE Spec2Model ----
(***************************************************************************)
(* A model of tmux-mcp (src/src/main.rs): the text helpers truncate and    *)
(* align_columns, the run_tmux wrapper and the six tool handlers of        *)
(* TmuxMcp.  A string is a sequence of characters, each character a        *)
(* one-element TLA+ string; the fixed texts of messages are kept as one    *)
(* token each.  tmux itself is the environment: every invocation either    *)
(* fails (spawn failure or non-zero exit) or answers with a stdout drawn   *)
(* from a small set of replies.  The server may serve a second request     *)
(* while one is suspended at an await: the variables below are the locals  *)
(* of the request whose handler runs, parked holds those of the other.     *)
(***************************************************************************)
EXTENDS Integers, Sequences, FiniteSets, TLC

VARIABLES
    current_pane_id,  \* TmuxMcp.current_pane_id: None or the pane id of $TMUX_PANE
    op,               \* the operation being served
    pc,               \* the handler's position (the await it is suspended at)
    req,              \* the request's parameters
    calls,            \* the tmux invocations of this request, in order, each with
                      \* its arguments and its result (Pending while outstanding)
    target,           \* local `target` / `t` of the handler
    current_window,   \* local `current_window` of list_windows
    rows,             \* the parsed rows (or reply lines) the handler iterates over
    idx,              \* the position of the outer loop in rows
    subs,             \* list_sessions: the window lines of the current session
    sidx,             \* list_sessions: the position of the inner loop in subs
    out,              \* local `out` / `output`: the text accumulated so far
    result,           \* the returned string, once pc = "done"
    budget,           \* reply lines the environment may still deliver
    parked            \* None, or the locals of the other request being served

vars == <<current_pane_id, op, pc, req, calls, target, current_window,
          rows, idx, subs, sidx, out, result, budget, parked>>

\* Option<T>: None, or Some(x)
None == <<>>
Some(x) == <<x>>
Unwrap(o) == o[1]

NoParams == [none |-> TRUE]

\* ---------------------------------------------------------------- bounds

MaxStrLen == 6       \* longest input string of truncate
MaxTruncN == 6       \* largest max of truncate
MaxTableRows == 2    \* rows of an align_columns input
MaxRowCells == 2     \* cells of one row
MaxCellLen == 2      \* characters of one cell
MaxTargetLen == 3    \* characters of a raw target of get_pane_contents
MaxLines == 3        \* reply lines the environment delivers within one request
MaxConcurrentLines == 2   \* the same, of each of two requests served at once

\* ------------------------------------------------------------- constants

MAX_NAME_LEN == 20
MAX_CMD_LEN == 16
DEFAULT_SCROLL_BACK == 1000

\* --------------------------------------------------------------- strings

\* Characters that take two bytes in UTF-8; every other character takes one.
\* "U+00E9" stands for the single character e-acute.
WideChars == {"U+00E9"}

RECURSIVE SeqsUpTo(_, _)
SeqsUpTo(S, n) ==
    IF n = 0 THEN {<<>>}
    ELSE LET shorter == SeqsUpTo(S, n - 1)
         IN  shorter \cup {Append(s, c) : s \in {x \in shorter : Len(x) = n - 1}, c \in S}

RECURSIVE Concat(_)
Concat(ss) == IF ss = <<>> THEN <<>> ELSE Head(ss) \o Concat(Tail(ss))

RECURSIVE Join(_, _)
Join(ss, sep) ==
    IF ss = <<>> THEN <<>>
    ELSE IF Len(ss) = 1 THEN Head(ss)
    ELSE Head(ss) \o sep \o Join(Tail(ss), sep)

Contains(s, c) == \E i \in DOMAIN s : s[i] = c

\* str::chars().count()
CharCount(s) == Len(s)

\* str::len(): the length in bytes
RECURSIVE ByteLen(_)
ByteLen(s) ==
    IF s = <<>> THEN 0
    ELSE (IF Head(s) \in WideChars THEN 2 ELSE 1) + ByteLen(Tail(s))

Spaces(n) == [i \in 1..n |-> " "]

MaxOf(S) == IF S = {} THEN 0 ELSE CHOOSE m \in S : \A x \in S : x <= m

\* usize::saturating_sub
SaturatingSub(a, b) == IF a >= b THEN a - b ELSE 0

\* ------------------------------------------------------- truncate, align

TruncateByteCount(s, max) ==
    IF ByteLen(s) <= max THEN s
    ELSE SubSeq(s, 1, SaturatingSub(max, 3)) \o <<".", ".", ".">>

truncate(s, max) ==
    IF CharCount(s) <= max THEN s
    ELSE SubSeq(s, 1, SaturatingSub(max, 3)) \o <<".", ".", ".">>

\* format!("{:width$}", cell): left-aligned, filled with spaces up to width
\* characters, never cut.
PadTo(cell, width) == cell \o Spaces(SaturatingSub(width, CharCount(cell)))

\* widths[i] after the first loop of align_columns
ColumnWidth(table, i) ==
    MaxOf({ByteLen(table[r][i]) : r \in {x \in DOMAIN table : i <= Len(table[x])}})

align_columns(table) ==
    IF table = <<>> THEN <<>>
    ELSE [r \in DOMAIN table |->
            Join([i \in DOMAIN table[r] |->
                    IF i < Len(table[r])
                    THEN PadTo(table[r][i], ColumnWidth(table, i))
                    ELSE table[r][i]],
                 <<" ", " ">>)]

\* ------------------------------------------------------ parsing helpers

Last(s) == s[Len(s)]

\* str::split(c): the pieces between the occurrences of c (at least one piece)
Split(s, c) ==
    LET at == SelectSeq([i \in DOMAIN s |-> i], LAMBDA i : s[i] = c)
    IN  [k \in 1..(Len(at) + 1) |->
            SubSeq(s, IF k = 1 THEN 1 ELSE at[k - 1] + 1,
                      IF k > Len(at) THEN Len(s) ELSE at[k] - 1)]

\* str::lines(): split at "\n"; a final empty piece is no line
Lines(s) ==
    LET pieces == Split(s, "\n")
    IN  IF Last(pieces) = <<>> THEN SubSeq(pieces, 1, Len(pieces) - 1) ELSE pieces

Whitespace == {" ", "\n", "\t"}

RECURSIVE TrimStart(_)
TrimStart(s) ==
    IF s # <<>> /\ Head(s) \in Whitespace THEN TrimStart(Tail(s)) ELSE s

\* str::trim_end()
RECURSIVE TrimEnd(_)
TrimEnd(s) ==
    IF s # <<>> /\ Last(s) \in Whitespace THEN TrimEnd(SubSeq(s, 1, Len(s) - 1)) ELSE s

\* str::trim()
Trim(s) == TrimEnd(TrimStart(s))

Digits == <<"0", "1", "2", "3", "4", "5", "6", "7", "8", "9">>

DigitValue(c) == (CHOOSE i \in DOMAIN Digits : Digits[i] = c) - 1

IsNumber(s) == s # <<>> /\ \A i \in DOMAIN s : \E d \in DOMAIN Digits : Digits[d] = s[i]

RECURSIVE NumberValue(_)
NumberValue(s) ==
    IF s = <<>> THEN 0 ELSE NumberValue(SubSeq(s, 1, Len(s) - 1)) * 10 + DigitValue(Last(s))

\* s.parse::<u32>().unwrap_or(0)
ParseOrZero(s) == IF IsNumber(s) THEN NumberValue(s) ELSE 0

\* the Display of an unsigned integer
RECURSIVE NumberText(_)
NumberText(n) ==
    IF n < 10 THEN <<Digits[n + 1]>> ELSE NumberText(n \div 10) \o <<Digits[(n % 10) + 1]>>

\* ------------------------------------------------------------ run_tmux

Ok(text) == [ok |-> TRUE, text |-> text]
Err(text) == [ok |-> FALSE, text |-> text]

\* What the spawned tmux process did: it could not be spawned, or it exited.
SpawnFailed(e) == [spawned |-> FALSE, e |-> e]
Exited(success, stdout, stderr) ==
    [spawned |-> TRUE, success |-> success, stdout |-> stdout, stderr |-> stderr]

run_tmux(outcome) ==
    IF ~outcome.spawned THEN Err(<<"Failed to run tmux: ">> \o outcome.e)
    ELSE IF ~outcome.success THEN Err(<<"tmux error: ">> \o outcome.stderr)
    ELSE Ok(outcome.stdout)

resolve_pane_id_or_empty(outcome) ==
    LET r == run_tmux(outcome)
    IN  IF r.ok THEN Ok(Trim(r.text)) ELSE Ok(<<>>)

\* resolve_pane_id: run_tmux(display-message ...).map(|s| s.trim())
resolve_pane_id(outcome) ==
    LET r == run_tmux(outcome)
    IN  IF r.ok THEN Ok(Trim(r.text)) ELSE r

\* start_line of capture_pane
StartLine(scroll_back) ==
    IF scroll_back > 0 THEN <<"-">> \o NumberText(scroll_back) ELSE <<"0">>

capture_pane_silent(pane, outcome) ==
    LET r == run_tmux(outcome)
    IN  IF r.ok THEN r.text ELSE <<>>

\* capture_pane: the captured contents, or the inline error text
capture_pane(pane, outcome) ==
    LET r == run_tmux(outcome)
    IN  IF r.ok THEN r.text
        ELSE <<"Error capturing ">> \o pane \o <<": ">> \o r.text \o <<"\n">>

\* req.scroll_back_lines.unwrap_or(1000)
ScrollBack(r) ==
    IF r.scroll_back_lines = None THEN DEFAULT_SCROLL_BACK
    ELSE Unwrap(r.scroll_back_lines)

\* The result slot of an invocation that has not returned yet.
Pending == [pending |-> TRUE]

\* The argument lists handed to run_tmux.
DisplayMessage(pane_id, format) ==
    [cmd |-> "display-message", t |-> pane_id, arg |-> format, res |-> Pending]
CapturePane(pane, scroll_back) ==
    [cmd |-> "capture-pane", t |-> pane, arg |-> StartLine(scroll_back), res |-> Pending]
ListPanes(window, format) ==
    [cmd |-> "list-panes", t |-> window, arg |-> format, res |-> Pending]
ListWindows(session, format) ==
    [cmd |-> "list-windows", t |-> session, arg |-> format, res |-> Pending]
ListSessions(format) ==
    [cmd |-> "list-sessions", t |-> None, arg |-> format, res |-> Pending]

FMT_SESSION == "#{session_name}"
FMT_SESSION_WINDOW == "#{session_name}:#{window_index}"
FMT_CURRENT_SESSION == "#{session_name}:#{window_index} (window: #{window_name})"
FMT_CURRENT_WINDOW == "#{session_name}:#{window_index}\t#{window_name}\t#{window_panes} panes"
FMT_WINDOW_PANES == "#{session_name}:#{window_index}.#{pane_index}\t#{pane_title}\t#{pane_width}x#{pane_height}\t#{?pane_active,active,}"
FMT_PANES == "#{pane_index}\t#{pane_width}\t#{pane_height}\t#{pane_current_command}\t#{?pane_active,1,0}\t#{pane_id}"
FMT_WINDOWS == "#{session_name}\t#{window_index}\t#{window_name}\t#{window_panes}\t#{?window_active,active,}"
FMT_SESSION_WINDOWS == "#{window_index}\t#{window_name}\t#{window_panes}"
FMT_SESSIONS == "#{session_name}\t#{session_windows}\t#{?session_attached,attached,detached}"

\* ------------------------------------------------- the environment: tmux

\* The sessions, windows and panes tmux may report.  tmux puts no ':' and
\* no '.' in a session name.
SessionNames == {<<"A">>, <<"b">>}
WindowIndexes == {<<"5">>}
PaneIds == {<<"%", "1">>, <<"%", "2">>}
OsErrors == {<<"No such file or directory (os error 2)">>}
Stderrs == {<<"can't find pane", "\n">>}
Contents == {<<"h", "i", "\n">>}

Tab(fields) == Join(fields, <<"\t">>)

\* tmux's expansion of a display-message format for session s, window w.
ExpandFormat(format, s, w) ==
    IF format = FMT_SESSION THEN s
    ELSE IF format = FMT_SESSION_WINDOW THEN s \o <<":">> \o w
    ELSE IF format = FMT_CURRENT_SESSION
         THEN s \o <<":">> \o w \o <<" ", "(", "window: ", "z", ")">>
    ELSE Tab(<<s \o <<":">> \o w, <<"z">>, <<"2", " ", "panes">>>>)

\* Reply lines of the listing queries: well-formed ones and under-length ones
\* (of a pane listing of get_window_contents: one that names a pane and one
\* with an empty first field).
WindowPaneLines ==
    { Tab(<<<<"A", ":", "5", ".", "0">>, <<"t">>, <<"8", "x", "2">>,
            <<"a", "c", "t", "i", "v", "e">>>>),
      Tab(<<<<"A", ":", "5", ".", "1">>, <<"t">>>>),
      Tab(<<<<>>, <<"t">>>>) }

PaneLines ==
    { Tab(<<<<"0">>, <<"8">>, <<"2">>, <<"s", "h">>, <<"1">>, <<"%", "1">>>>),
      Tab(<<<<"1">>, <<"8">>, <<"2">>, <<"v", "i">>, <<"0">>, <<"%", "2">>>>),
      Tab(<<<<"1">>, <<"8">>>>) }

ATTACHED == <<"a", "t", "t", "a", "c", "h", "e", "d">>
DETACHED == <<"d", "e", "t", "a", "c", "h", "e", "d">>
ACTIVE == <<"a", "c", "t", "i", "v", "e">>

WindowLines ==
    { Tab(<<<<"A">>, <<"5">>, <<"z">>, <<"2">>, ACTIVE>>),
      Tab(<<<<"b">>, <<"5">>, <<"z">>, <<"1">>, <<>>>>),
      Tab(<<<<"A">>, <<"5">>, <<"z">>>>) }

SessionWindowLines ==
    { Tab(<<<<"5">>, <<"z">>, <<"2">>>>),
      Tab(<<<<"1">>, <<"z">>, <<"1">>>>),
      Tab(<<<<"5">>, <<"z">>>>) }

SessionLines ==
    { Tab(<<<<"A">>, <<"1">>, ATTACHED>>),
      Tab(<<<<"b">>, <<"2">>, DETACHED>>),
      Tab(<<<<"A">>>>) }

ReplyLines(format) ==
    IF format = FMT_WINDOW_PANES THEN WindowPaneLines
    ELSE IF format = FMT_PANES THEN PaneLines
    ELSE IF format = FMT_WINDOWS THEN WindowLines
    ELSE IF format = FMT_SESSION_WINDOWS THEN SessionWindowLines
    ELSE SessionLines

ListingFormats ==
    {FMT_WINDOW_PANES, FMT_PANES, FMT_WINDOWS, FMT_SESSION_WINDOWS, FMT_SESSIONS}

\* The listings of at most n lines tmux may print for a format: a line per
\* item, each ended by a newline.
Listings ==
    [f \in ListingFormats |->
        [n \in 0..MaxLines |->
            {Concat([i \in DOMAIN ls |-> ls[i] \o <<"\n">>]) :
                ls \in SeqsUpTo(ReplyLines(f), n)}]]

\* The stdouts of a successful invocation: a display-message prints one
\* line, a capture the pane's contents, a listing a line per item.
Stdouts(call, lines_left) ==
    IF call.cmd = "display-message"
    THEN {ExpandFormat(call.arg, s, w) \o <<"\n">> : s \in SessionNames, w \in WindowIndexes}
    ELSE IF call.cmd = "capture-pane" THEN Contents
    ELSE Listings[call.arg][lines_left]

Outcomes(call, lines_left) ==
    {SpawnFailed(e) : e \in OsErrors}
      \cup {Exited(FALSE, <<>>, e) : e \in Stderrs}
      \cup {Exited(TRUE, so, <<>>) : so \in Stdouts(call, lines_left)}

\* ------------------------------------------------------------ requests

CurrentPaneIds == {None, Some(<<"%", "1">>)}

\* TmuxMcp::new(), no request being served yet.
Init ==
    /\ current_pane_id \in CurrentPaneIds
    /\ parked = None
    /\ op = "idle"
    /\ pc = "idle"
    /\ req = NoParams
    /\ calls = <<>>
    /\ target = <<>>
    /\ current_window = None
    /\ rows = <<>>
    /\ idx = 0
    /\ subs = <<>>
    /\ sidx = 0
    /\ out = <<>>
    /\ result = <<>>
    /\ budget = MaxLines

\* The request is accepted and the handler starts running.
Accept(name, params) ==
    /\ op = "idle"
    /\ op' = name
    /\ req' = params
    /\ UNCHANGED <<current_pane_id, parked>>

\* The handler resumes: same operation, same request.
Resume(name, at) ==
    /\ op = name
    /\ pc = at
    /\ UNCHANGED <<current_pane_id, op, req, parked>>

\* The outstanding invocation, and the calls with run_tmux's result r of it
\* filled in.
Outstanding == Last(calls)
Answered(r) == [calls EXCEPT ![Len(calls)].res = r]

\* return text;
Return(text, cs) ==
    /\ result' = text
    /\ pc' = "done"
    /\ calls' = cs

\* ---- get_current_session, get_current_window

NOT_IN_TMUX_PANE == <<"Not running inside tmux (TMUX_PANE not set)">>
NOT_IN_TMUX == <<"Not running inside tmux">>
NO_TARGET_NOT_IN_TMUX == <<"No target specified and not running inside tmux">>

GetCurrentStart(name, format) ==
    /\ Accept(name, NoParams)
    /\ IF current_pane_id = None
       THEN Return(NOT_IN_TMUX_PANE, calls)
       ELSE /\ calls' = Append(calls, DisplayMessage(Unwrap(current_pane_id), format))
            /\ pc' = "resolve"
            /\ UNCHANGED result
    /\ UNCHANGED <<target, current_window, rows, idx, subs, sidx, out, budget>>

GetCurrentResolved(name) ==
    /\ Resume(name, "resolve")
    /\ \E o \in Outcomes(Outstanding, budget) :
          LET r == resolve_pane_id(o)
          IN  Return(r.text, Answered(run_tmux(o)))
    /\ UNCHANGED <<target, current_window, rows, idx, subs, sidx, out, budget>>

get_current_session_start == GetCurrentStart("get_current_session", FMT_CURRENT_SESSION)
get_current_session_resolved == GetCurrentResolved("get_current_session")
get_current_window_start == GetCurrentStart("get_current_window", FMT_CURRENT_WINDOW)
get_current_window_resolved == GetCurrentResolved("get_current_window")

\* ---- get_pane_contents

TargetChars == {"A", "5", ":", ".", " "}
PaneTargets ==
    SeqsUpTo(TargetChars, MaxTargetLen)
       \cup {<<"A", ":", "5", ".", "5">>, <<" ", "5", ".", "5", " ">>}
ScrollBacks == {None, Some(0)}

INVALID_TARGET_EXPECTED ==
    <<"\": expected \"sess:window.pane\" but no pane specifier found. Use get_window_contents to read an entire window.">>

InvalidTarget(t) == <<"Invalid target \"">> \o t \o INVALID_TARGET_EXPECTED

PaneBranchUnchecked(t) ==
    IF Contains(t, ":") THEN "qualified"
    ELSE IF Contains(t, ".") THEN "window_pane"
    ELSE "bare"

\* The branch get_pane_contents takes on the trimmed target t.
PaneBranch(t) ==
    IF Contains(t, ":")
    THEN IF ~Contains(t, ".") THEN "invalid" ELSE "qualified"
    ELSE IF Contains(t, ".") THEN "window_pane"
    ELSE "bare"

WithSessionOmitted(session, t) == t
WithWindowColon(window, t) == window \o <<":">> \o t

\* format!("{session}:{t}") and format!("{current_window}.{t}")
WithSession(session, t) == session \o <<":">> \o t
WithWindow(window, t) == window \o <<".">> \o t

get_pane_contents_start ==
    \E raw \in PaneTargets, sb \in ScrollBacks :
       LET r == [target |-> raw, scroll_back_lines |-> sb]
           t == Trim(raw)
       IN  /\ Accept("get_pane_contents", r)
           /\ IF PaneBranch(t) = "invalid"
              THEN /\ Return(InvalidTarget(t), calls)
                   /\ UNCHANGED target
              ELSE IF PaneBranch(t) = "qualified"
              THEN /\ target' = t
                   /\ calls' = Append(calls, CapturePane(t, ScrollBack(r)))
                   /\ pc' = "capture"
                   /\ UNCHANGED result
              ELSE IF current_pane_id = None
              THEN /\ Return(NOT_IN_TMUX, calls)
                   /\ UNCHANGED target
              ELSE /\ target' = t
                   /\ calls' = Append(calls,
                          DisplayMessage(Unwrap(current_pane_id),
                              IF PaneBranch(t) = "window_pane" THEN FMT_SESSION
                              ELSE FMT_SESSION_WINDOW))
                   /\ pc' = "resolve"
                   /\ UNCHANGED result
           /\ UNCHANGED <<current_window, rows, idx, subs, sidx, out, budget>>

get_pane_contents_resolved ==
    /\ Resume("get_pane_contents", "resolve")
    /\ \E o \in Outcomes(Outstanding, budget) :
          LET r == resolve_pane_id(o)
              resolved == IF PaneBranch(target) = "window_pane"
                          THEN WithSession(r.text, target)
                          ELSE WithWindow(r.text, target)
          IN  IF r.ok
              THEN /\ target' = resolved
                   /\ calls' = Append(Answered(run_tmux(o)),
                                      CapturePane(resolved, ScrollBack(req)))
                   /\ pc' = "capture"
                   /\ UNCHANGED result
              ELSE /\ Return(r.text, Answered(run_tmux(o)))
                   /\ UNCHANGED target
    /\ UNCHANGED <<current_window, rows, idx, subs, sidx, out, budget>>

get_pane_contents_captured ==
    /\ Resume("get_pane_contents", "capture")
    /\ \E o \in Outcomes(Outstanding, budget) :
          Return(capture_pane(target, o), Answered(run_tmux(o)))
    /\ UNCHANGED <<target, current_window, rows, idx, subs, sidx, out, budget>>

\* ---- get_window_contents

WindowTargets ==
    {None} \cup {Some(t) : t \in {<<>>, <<"5">>, <<" ", "5">>, <<":", "5">>,
                                   <<"A", ":", "5">>}}

WindowBranchIgnoringIndex(t) ==
    IF t # None /\ Contains(Unwrap(t), ":") THEN "qualified" ELSE "default"

WindowScrollBacks == {Some(2)}

\* The arm of `match req.target` that get_window_contents takes.
WindowBranch(t) ==
    IF t = None THEN "default"
    ELSE IF Contains(Unwrap(t), ":") THEN "qualified"
    ELSE "window"

\* line.split('\t').next().unwrap_or("")
PaneTargetOf(line) == Head(Split(line, "\t"))

NextPaneLineUnchecked(ls, from) == IF from < Len(ls) THEN from + 1 ELSE 0

\* The next line after position `from` that the loop does not skip, or 0.
NextPaneLine(ls, from) ==
    LET later == {j \in DOMAIN ls : j > from /\ PaneTargetOf(ls[j]) # <<>>}
    IN  IF later = {} THEN 0 ELSE CHOOSE j \in later : \A k \in later : j <= k

\* format!("=== Pane {pane_target} ({}) ===\n", line)
PaneHeader(line) ==
    <<"=== Pane ">> \o PaneTargetOf(line) \o <<" (">> \o line \o <<") ===", "\n">>

\* The loop over panes.lines() from position `from` on, up to its next
\* capture_pane or to the end of the handler.
CaptureNextPane(ls, from, output, cs) ==
    LET j == NextPaneLine(ls, from)
    IN  IF j = 0
        THEN /\ Return(output, cs)
             /\ out' = output
             /\ idx' = Len(ls)
        ELSE /\ out' = output \o PaneHeader(ls[j])
             /\ idx' = j
             /\ calls' = Append(cs, CapturePane(PaneTargetOf(ls[j]), ScrollBack(req)))
             /\ pc' = "capture"
             /\ UNCHANGED result

get_window_contents_start ==
    \E t \in WindowTargets, sb \in WindowScrollBacks :
       /\ Accept("get_window_contents", [target |-> t, scroll_back_lines |-> sb])
       /\ IF WindowBranch(t) = "qualified"
          THEN /\ target' = Unwrap(t)
               /\ calls' = Append(calls, ListPanes(Unwrap(t), FMT_WINDOW_PANES))
               /\ pc' = "list_panes"
               /\ UNCHANGED result
          ELSE IF current_pane_id = None
          THEN /\ Return(IF WindowBranch(t) = "window" THEN NOT_IN_TMUX
                         ELSE NO_TARGET_NOT_IN_TMUX, calls)
               /\ UNCHANGED target
          ELSE /\ calls' = Append(calls,
                      DisplayMessage(Unwrap(current_pane_id),
                          IF WindowBranch(t) = "window" THEN FMT_SESSION
                          ELSE FMT_SESSION_WINDOW))
               /\ pc' = "resolve"
               /\ UNCHANGED <<target, result>>
       /\ UNCHANGED <<current_window, rows, idx, subs, sidx, out, budget>>

get_window_contents_resolved ==
    /\ Resume("get_window_contents", "resolve")
    /\ \E o \in Outcomes(Outstanding, budget) :
          LET r == resolve_pane_id(o)
              resolved == IF WindowBranch(req.target) = "window"
                          THEN WithSession(r.text, Unwrap(req.target))
                          ELSE r.text
          IN  IF r.ok
              THEN /\ target' = resolved
                   /\ calls' = Append(Answered(run_tmux(o)),
                                      ListPanes(resolved, FMT_WINDOW_PANES))
                   /\ pc' = "list_panes"
                   /\ UNCHANGED result
              ELSE /\ Return(r.text, Answered(run_tmux(o)))
                   /\ UNCHANGED target
    /\ UNCHANGED <<current_window, rows, idx, subs, sidx, out, budget>>

get_window_contents_listed ==
    /\ Resume("get_window_contents", "list_panes")
    /\ \E o \in Outcomes(Outstanding, budget) :
          LET r == run_tmux(o)
          IN  IF r.ok
              THEN /\ rows' = Lines(r.text)
                   /\ budget' = budget - Len(Lines(r.text))
                   /\ CaptureNextPane(Lines(r.text), 0, <<>>, Answered(r))
              ELSE /\ Return(r.text, Answered(r))
                   /\ UNCHANGED <<rows, idx, out, budget>>
    /\ UNCHANGED <<target, current_window, subs, sidx>>

get_window_contents_captured ==
    /\ Resume("get_window_contents", "capture")
    /\ \E o \in Outcomes(Outstanding, budget) :
          CaptureNextPane(rows, idx,
              out \o capture_pane(PaneTargetOf(rows[idx]), o) \o <<"\n">>,
              Answered(run_tmux(o)))
    /\ UNCHANGED <<target, current_window, rows, subs, sidx, budget>>

\* ---- the listings: rows and their rendering

Verboses == {None, Some(TRUE)}

\* req.verbose.unwrap_or(false)
Verbose(r) == r.verbose # None /\ Unwrap(r.verbose)

\* The lines of a reply that have at least n tab-separated fields, split.
Fields(stdout, n) ==
    LET split == [i \in DOMAIN Lines(stdout) |-> Split(Lines(stdout)[i], "\t")]
    IN  SelectSeq(split, LAMBDA f : Len(f) >= n)

\* if n == 1 { "" } else { "s" }
Plural(n) == IF n = 1 THEN <<>> ELSE <<"s">>

PANE == <<" ", "p", "a", "n", "e">>
WINDOW == <<" ", "w", "i", "n", "d", "o", "w">>
CURRENT_MARK == <<"<", "-", "-", " ", "c", "u", "r", "r", "e", "n", "t">>
ACTIVE_MARK == <<"(", "a", "c", "t", "i", "v", "e", ")">>

\* fetch_panes: the PaneInfo of every line with six fields, or the error
fetch_panes(outcome) ==
    LET r == run_tmux(outcome)
    IN  IF ~r.ok THEN [ok |-> FALSE, text |-> r.text, panes |-> <<>>]
        ELSE LET fs == Fields(r.text, 6)
             IN  [ok |-> TRUE, text |-> r.text,
                  panes |-> [i \in DOMAIN fs |->
                                [pane_index |-> ParseOrZero(fs[i][1]),
                                 width |-> ParseOrZero(fs[i][2]),
                                 height |-> ParseOrZero(fs[i][3]),
                                 current_command |-> fs[i][4],
                                 is_active |-> fs[i][5] = <<"1">>,
                                 pane_id |-> fs[i][6]]]]

\* The suffix cell of a pane row: "(active)" and/or "<-- current".
PaneSuffix(p, is_current) ==
    (IF p.is_active THEN ACTIVE_MARK ELSE <<>>)
      \o (IF is_current
          THEN (IF p.is_active THEN <<" ", " ">> ELSE <<>>) \o CURRENT_MARK
          ELSE <<>>)

\* One pane's cells: the closure building pane_rows.  `may_mark` is
\* is_current_window in list_windows and true in list_sessions.
PaneRow(p, indent, may_mark) ==
    LET cols == << indent \o <<".">> \o NumberText(p.pane_index),
                   NumberText(p.width) \o <<"x">> \o NumberText(p.height),
                   truncate(p.current_command, MAX_CMD_LEN) >>
        suffix == PaneSuffix(p, may_mark /\ current_pane_id = Some(p.pane_id))
    IN  IF suffix # <<>> THEN Append(cols, suffix) ELSE cols

\* for line in align_columns(&pane_rows) { out.push_str(&line); out.push('\n') }
PaneBlock(panes, indent, may_mark) ==
    LET lines == align_columns([i \in DOMAIN panes |-> PaneRow(panes[i], indent, may_mark)])
    IN  Concat([i \in DOMAIN lines |-> lines[i] \o <<"\n">>])

\* Every local of a listing handler at once: go on to the next await, or
\* return.
Goto(at, cs, output, i, ls, j) ==
    /\ pc' = at
    /\ calls' = cs
    /\ out' = output
    /\ idx' = i
    /\ subs' = ls
    /\ sidx' = j
    /\ UNCHANGED result

Finish(text, cs, output, i, ls, j) ==
    /\ pc' = "done"
    /\ result' = text
    /\ calls' = cs
    /\ out' = output
    /\ idx' = i
    /\ subs' = ls
    /\ sidx' = j

\* ---- list_windows

WindowSessions == {None, Some(<<"A">>)}

\* WinRow of every line with five fields
WinRows(stdout) ==
    LET fs == Fields(stdout, 5)
    IN  [i \in DOMAIN fs |->
            [session |-> fs[i][1], index |-> fs[i][2], name |-> fs[i][3],
             pane_count |-> fs[i][4], active |-> fs[i][5]]]

\* format!("{}:{}", w.session, w.index)
WinKey(w) == w.session \o <<":">> \o w.index

IsCurrentWindowAnySession(cw, w) == cw # None /\ Split(Unwrap(cw), ":")[2] = w.index

\* current_window.as_deref() == Some(&key)
IsCurrentWindow(cw, w) == cw = Some(WinKey(w))

\* The cells of a window in the non-verbose listing.
WinRowCells(w, cw) ==
    LET pcount == ParseOrZero(w.pane_count)
    IN  << WinKey(w),
           truncate(w.name, MAX_NAME_LEN),
           NumberText(pcount) \o PANE \o Plural(pcount) >>
          \o (IF w.active = ACTIVE THEN <<ACTIVE>> ELSE <<>>)
          \o (IF IsCurrentWindow(cw, w) THEN <<CURRENT_MARK>> ELSE <<>>)

\* The header line of a window in the verbose listing.
WinHeader(w) ==
    LET pcount == ParseOrZero(w.pane_count)
    IN  WinKey(w) \o <<":", " ", " ">> \o truncate(w.name, MAX_NAME_LEN)
          \o <<" ", " ">> \o NumberText(pcount) \o PANE \o Plural(pcount)
          \o (IF w.active = ACTIVE THEN <<" ", " ">> \o ACTIVE ELSE <<>>)
          \o <<"\n">>

NextWindowRetrying(ws, from, output, cs) ==
    LET failed(i) == i \in DOMAIN cs /\ cs[i].cmd = "list-panes" /\ ~cs[i].res.ok
    IN  IF from > 0 /\ failed(Len(cs)) /\ ~failed(Len(cs) - 1)
        THEN Goto("fetch_panes",
                  Append(cs, ListPanes(WinKey(ws[from]), FMT_PANES)),
                  output, from, <<>>, 0)
        ELSE IF from >= Len(ws)
        THEN Finish(TrimEnd(output), cs, output, from, <<>>, 0)
        ELSE Goto("fetch_panes",
                  Append(cs, ListPanes(WinKey(ws[from + 1]), FMT_PANES)),
                  output \o WinHeader(ws[from + 1]), from + 1, <<>>, 0)

\* The verbose loop from window `from`+1 on, up to its fetch_panes or the end.
NextWindow(ws, from, output, cs) ==
    IF from >= Len(ws)
    THEN Finish(TrimEnd(output), cs, output, from, <<>>, 0)
    ELSE Goto("fetch_panes",
              Append(cs, ListPanes(WinKey(ws[from + 1]), FMT_PANES)),
              output \o WinHeader(ws[from + 1]), from + 1, <<>>, 0)

\* list_windows once current_window is known.
RenderWindows(ws, cw, cs) ==
    IF ~Verbose(req')
    THEN Finish(Join(align_columns([i \in DOMAIN ws |-> WinRowCells(ws[i], cw)]), <<"\n">>),
                cs, <<>>, 0, <<>>, 0)
    ELSE NextWindow(ws, 0, <<>>, cs)

list_windows_start ==
    \E session \in WindowSessions, v \in Verboses :
       /\ Accept("list_windows", [session |-> session, verbose |-> v])
       /\ calls' = Append(calls,
              ListWindows(IF session = None THEN None
                          ELSE Some(Unwrap(session) \o <<":">>), FMT_WINDOWS))
       /\ pc' = "list_windows"
       /\ UNCHANGED <<target, current_window, rows, idx, subs, sidx, out, result, budget>>

list_windows_listed ==
    /\ Resume("list_windows", "list_windows")
    /\ \E o \in Outcomes(Outstanding, budget) :
          LET r == run_tmux(o)
          IN  IF ~r.ok
              THEN /\ Finish(r.text, Answered(r), <<>>, 0, <<>>, 0)
                   /\ UNCHANGED <<rows, budget, current_window>>
              ELSE /\ rows' = WinRows(r.text)
                   /\ budget' = budget - Len(Lines(r.text))
                   /\ IF current_pane_id = None
                      THEN /\ current_window' = None
                           /\ RenderWindows(WinRows(r.text), None, Answered(r))
                      ELSE /\ Goto("resolve",
                                   Append(Answered(r),
                                          DisplayMessage(Unwrap(current_pane_id),
                                                         FMT_SESSION_WINDOW)),
                                   <<>>, 0, <<>>, 0)
                           /\ UNCHANGED current_window
    /\ UNCHANGED target

list_windows_resolved ==
    /\ Resume("list_windows", "resolve")
    /\ \E o \in Outcomes(Outstanding, budget) :
          LET r == resolve_pane_id(o)
              cw == IF r.ok THEN Some(r.text) ELSE None
          IN  /\ current_window' = cw
              /\ RenderWindows(rows, cw, Answered(run_tmux(o)))
    /\ UNCHANGED <<target, rows, budget>>

list_windows_panes ==
    /\ Resume("list_windows", "fetch_panes")
    /\ \E o \in Outcomes(Outstanding, budget) :
          LET f == fetch_panes(o)
          IN  IF ~f.ok
              THEN /\ NextWindow(rows, idx, out, Answered(run_tmux(o)))
                   /\ UNCHANGED budget
              ELSE /\ NextWindow(rows, idx,
                          out \o PaneBlock(f.panes, <<" ", " ">>,
                                           IsCurrentWindow(current_window, rows[idx])),
                          Answered(run_tmux(o)))
                   /\ budget' = budget - Len(Lines(f.text))
    /\ UNCHANGED <<target, current_window, rows>>

\* ---- list_sessions

\* SessionRow of every line with three fields
SessionRows(stdout) ==
    LET fs == Fields(stdout, 3)
    IN  [i \in DOMAIN fs |->
            [name |-> fs[i][1], window_count |-> fs[i][2], state |-> fs[i][3]]]

\* The cells of a session in the non-verbose listing.
SessionRowCells(x) ==
    << truncate(x.name, MAX_NAME_LEN),
       <<"(">> \o x.state \o <<")">>,
       x.window_count \o WINDOW \o (IF x.window_count = <<"1">> THEN <<>> ELSE <<"s">>) >>

\* The header line of a session in the verbose listing.
SessionHeader(x) ==
    LET wcount == ParseOrZero(x.window_count)
    IN  truncate(x.name, MAX_NAME_LEN) \o <<" ", "(">> \o x.state \o <<")", " ", " ">>
          \o NumberText(wcount) \o WINDOW \o Plural(wcount) \o <<"\n">>

\* The header line of a window of a session; wf are the line's fields.
SessionWindowHeader(wf) ==
    LET pane_count == ParseOrZero(wf[3])
    IN  <<" ", " ">> \o wf[1] \o <<":", " ", " ">> \o truncate(wf[2], MAX_NAME_LEN)
          \o <<" ", " ">> \o NumberText(pane_count) \o PANE \o Plural(pane_count)
          \o <<"\n">>

\* The next window line after `from` with three fields, or 0.
NextWindowLine(ls, from) ==
    LET later == {j \in DOMAIN ls : j > from /\ Len(Split(ls[j], "\t")) >= 3}
    IN  IF later = {} THEN 0 ELSE CHOOSE j \in later : \A k \in later : j <= k

\* The outer loop from session `from`+1 on, up to its list-windows or the end.
NextSession(ss, from, output, cs) ==
    IF from >= Len(ss)
    THEN Finish(TrimEnd(output), cs, output, from, <<>>, 0)
    ELSE Goto("list_windows",
              Append(cs, ListWindows(Some(ss[from + 1].name \o <<":">>),
                                     FMT_SESSION_WINDOWS)),
              output \o SessionHeader(ss[from + 1]), from + 1, <<>>, 0)

\* The inner loop of session si from window line `from`+1 on, up to its
\* fetch_panes or to the next session.
NextSessionWindow(ss, si, ls, from, output, cs) ==
    LET j == NextWindowLine(ls, from)
        wf == Split(ls[j], "\t")
    IN  IF j = 0 THEN NextSession(ss, si, output, cs)
        ELSE Goto("fetch_panes",
                  Append(cs, ListPanes(ss[si].name \o <<":">> \o wf[1], FMT_PANES)),
                  output \o SessionWindowHeader(wf), si, ls, j)

list_sessions_start ==
    \E v \in Verboses :
       /\ Accept("list_sessions", [verbose |-> v])
       /\ calls' = Append(calls, ListSessions(FMT_SESSIONS))
       /\ pc' = "list_sessions"
       /\ UNCHANGED <<target, current_window, rows, idx, subs, sidx, out, result, budget>>

list_sessions_listed ==
    /\ Resume("list_sessions", "list_sessions")
    /\ \E o \in Outcomes(Outstanding, budget) :
          LET r == run_tmux(o)
              ss == SessionRows(r.text)
          IN  IF ~r.ok
              THEN /\ Finish(r.text, Answered(r), <<>>, 0, <<>>, 0)
                   /\ UNCHANGED <<rows, budget>>
              ELSE /\ rows' = ss
                   /\ budget' = budget - Len(Lines(r.text))
                   /\ IF ~Verbose(req)
                      THEN Finish(Join(align_columns([i \in DOMAIN ss |->
                                                         SessionRowCells(ss[i])]),
                                       <<"\n">>),
                                  Answered(r), <<>>, 0, <<>>, 0)
                      ELSE NextSession(ss, 0, <<>>, Answered(r))
    /\ UNCHANGED <<target, current_window>>

list_sessions_windows ==
    /\ Resume("list_sessions", "list_windows")
    /\ \E o \in Outcomes(Outstanding, budget) :
          LET r == run_tmux(o)
          IN  IF ~r.ok
              THEN /\ NextSession(rows, idx, out, Answered(r))
                   /\ UNCHANGED budget
              ELSE /\ NextSessionWindow(rows, idx, Lines(r.text), 0, out, Answered(r))
                   /\ budget' = budget - Len(Lines(r.text))
    /\ UNCHANGED <<target, current_window, rows>>

list_sessions_panes ==
    /\ Resume("list_sessions", "fetch_panes")
    /\ \E o \in Outcomes(Outstanding, budget) :
          LET f == fetch_panes(o)
          IN  IF ~f.ok
              THEN /\ NextSessionWindow(rows, idx, subs, sidx, out, Answered(run_tmux(o)))
                   /\ UNCHANGED budget
              ELSE /\ NextSessionWindow(rows, idx, subs, sidx,
                          out \o PaneBlock(f.panes, <<" ", " ", " ", " ">>, TRUE),
                          Answered(run_tmux(o)))
                   /\ budget' = budget - Len(Lines(f.text))
    /\ UNCHANGED <<target, current_window, rows>>

Next ==
    \/ get_current_session_start
    \/ get_current_session_resolved
    \/ get_current_window_start
    \/ get_current_window_resolved
    \/ get_pane_contents_start
    \/ get_pane_contents_resolved
    \/ get_pane_contents_captured
    \/ get_window_contents_start
    \/ get_window_contents_resolved
    \/ get_window_contents_listed
    \/ get_window_contents_captured
    \/ list_windows_start
    \/ list_windows_listed
    \/ list_windows_resolved
    \/ list_windows_panes
    \/ list_sessions_start
    \/ list_sessions_listed
    \/ list_sessions_windows
    \/ list_sessions_panes

Spec == Init /\ [][Next]_vars

\* ------------------------------------------- two requests served at once

\* The locals of the request whose handler runs.
Ctx ==
    [op |-> op, pc |-> pc, req |-> req, calls |-> calls, target |-> target,
     current_window |-> current_window, rows |-> rows, idx |-> idx,
     subs |-> subs, sidx |-> sidx, out |-> out, result |-> result,
     budget |-> budget]

\* The locals of a request that has not arrived yet.
Idle(lines) ==
    [op |-> "idle", pc |-> "idle", req |-> NoParams, calls |-> <<>>,
     target |-> <<>>, current_window |-> None, rows |-> <<>>, idx |-> 0,
     subs |-> <<>>, sidx |-> 0, out |-> <<>>, result |-> <<>>,
     budget |-> lines]

\* The requests being served: one, or two.
Served == IF parked = None THEN {Ctx} ELSE {Ctx, Unwrap(parked)}

\* The runtime leaves the running handler where it is (suspended at its
\* await, returned, or not started) and runs the other request's.  The
\* handlers take &self and TmuxMcp has the one field, set at construction:
\* the locals are all a request has.
Switch ==
    /\ parked # None
    /\ Unwrap(parked) # Ctx
    /\ parked' = Some(Ctx)
    /\ op' = Unwrap(parked).op
    /\ pc' = Unwrap(parked).pc
    /\ req' = Unwrap(parked).req
    /\ calls' = Unwrap(parked).calls
    /\ target' = Unwrap(parked).target
    /\ current_window' = Unwrap(parked).current_window
    /\ rows' = Unwrap(parked).rows
    /\ idx' = Unwrap(parked).idx
    /\ subs' = Unwrap(parked).subs
    /\ sidx' = Unwrap(parked).sidx
    /\ out' = Unwrap(parked).out
    /\ result' = Unwrap(parked).result
    /\ budget' = Unwrap(parked).budget
    /\ UNCHANGED current_pane_id

\* The pairs of requests the concurrent runs serve: any request next to a
\* get_current_session request (or to none yet).
IsLookupRequest(c) == c.op \in {"idle", "get_current_session"}
OtherIsLookup == IsLookupRequest(Unwrap(parked))

InitConcurrent ==
    /\ current_pane_id \in CurrentPaneIds
    /\ parked = Some(Idle(MaxConcurrentLines))
    /\ op = "idle"
    /\ pc = "idle"
    /\ req = NoParams
    /\ calls = <<>>
    /\ target = <<>>
    /\ current_window = None
    /\ rows = <<>>
    /\ idx = 0
    /\ subs = <<>>
    /\ sidx = 0
    /\ out = <<>>
    /\ result = <<>>
    /\ budget = MaxConcurrentLines

NextConcurrent ==
    \/ Switch
    \/ get_current_session_start
    \/ get_current_session_resolved
    \/ OtherIsLookup /\ get_current_window_start
    \/ get_current_window_resolved
    \/ OtherIsLookup /\ get_pane_contents_start
    \/ get_pane_contents_resolved
    \/ get_pane_contents_captured
    \/ OtherIsLookup /\ get_window_contents_start
    \/ get_window_contents_resolved
    \/ get_window_contents_listed
    \/ get_window_contents_captured
    \/ OtherIsLookup /\ list_windows_start
    \/ list_windows_listed
    \/ list_windows_resolved
    \/ list_windows_panes
    \/ OtherIsLookup /\ list_sessions_start
    \/ list_sessions_listed
    \/ list_sessions_windows
    \/ list_sessions_panes

SpecConcurrent == InitConcurrent /\ [][NextConcurrent]_vars

\* ---- the claims about get_pane_contents and get_window_contents

CallsOf(cmd) == SelectSeq(calls, LAMBDA c : c.cmd = cmd)

\* The first invocation was an ambient lookup and tmux answered it with the
\* line `text`.
LookedUp(text) ==
    /\ calls # <<>>
    /\ calls[1].cmd = "display-message"
    /\ calls[1].res = Ok(text \o <<"\n">>)

LookupSucceeded ==
    /\ calls # <<>>
    /\ calls[1].cmd = "display-message"
    /\ calls[1].res # Pending
    /\ calls[1].res.ok

\* C1: get_pane_contents hands capture-pane the trimmed target itself when
\* it contains ':' (and a '.'), '{session}:{target}' when it contains '.' but
\* no ':', and '{session:window}.{target}' when it contains neither, the
\* session and window being those the ambient lookup reported; and it does
\* issue the capture whenever the target is resolvable.
C1_PaneTargetResolution ==
    op = "get_pane_contents" =>
        LET t == Trim(req.target)
            caps == CallsOf("capture-pane")
        IN  /\ \A i \in DOMAIN caps :
                  /\ Contains(t, ":") => caps[i].t = t
                  /\ (~Contains(t, ":") /\ Contains(t, ".")) =>
                        \E s \in SessionNames :
                            /\ LookedUp(s)
                            /\ caps[i].t = s \o <<":">> \o t
                  /\ (~Contains(t, ":") /\ ~Contains(t, ".")) =>
                        \E s \in SessionNames, w \in WindowIndexes :
                            /\ LookedUp(s \o <<":">> \o w)
                            /\ caps[i].t = s \o <<":">> \o w \o <<".">> \o t
            /\ (pc = "done" /\ (LookupSucceeded \/ (Contains(t, ":") /\ Contains(t, "."))))
                  => Len(caps) = 1

\* With ambient session A and window A:5 the bare target "5" was captured as
\* "A:5.5".
C1_Witness ==
    /\ op = "get_pane_contents" /\ pc = "done"
    /\ req.target = <<"5">>
    /\ LookedUp(<<"A", ":", "5">>)
    /\ Last(calls).cmd = "capture-pane"
    /\ Last(calls).t = <<"A", ":", "5", ".", "5">>

\* A session delimiter followed, later, by a pane delimiter.
ColonThenDot(s) == \E i, j \in DOMAIN s : i < j /\ s[i] = ":" /\ s[j] = "."

\* C2: get_pane_contents issues capture-pane only with a target of the shape
\* session:window.pane, and rejects every target that has a ':' but no '.'
\* after it with the "window.pane" error, without a capture.
C2_CaptureOnlyFullyQualified ==
    op = "get_pane_contents" =>
        LET t == Trim(req.target)
            caps == CallsOf("capture-pane")
        IN  /\ \A i \in DOMAIN caps : ColonThenDot(caps[i].t)
            /\ (pc = "done" /\ Contains(t, ":") /\ ~ColonThenDot(t)) =>
                  /\ result = InvalidTarget(t)
                  /\ caps = <<>>

\* C3: an operation that returns because of malformed or ambiguous input (a
\* session-qualified target without a pane in get_pane_contents; no ambient
\* pane where the ambient context is needed) returns at once, with the
\* descriptive text, having made no tmux invocation.
C3_NoCallOnMalformedInput ==
    /\ (op = "get_pane_contents"
          /\ Contains(Trim(req.target), ":") /\ ~Contains(Trim(req.target), "."))
          => /\ pc = "done"
             /\ result = InvalidTarget(Trim(req.target))
             /\ calls = <<>>
    /\ (current_pane_id = None /\ op \in {"get_current_session", "get_current_window"})
          => /\ pc = "done"
             /\ result = NOT_IN_TMUX_PANE
             /\ calls = <<>>
    /\ (current_pane_id = None /\ op = "get_pane_contents"
          /\ ~Contains(Trim(req.target), ":"))
          => /\ pc = "done"
             /\ result = NOT_IN_TMUX
             /\ calls = <<>>
    /\ (current_pane_id = None /\ op = "get_window_contents"
          /\ (req.target = None \/ ~Contains(Unwrap(req.target), ":")))
          => /\ pc = "done"
             /\ result = (IF req.target = None THEN NO_TARGET_NOT_IN_TMUX ELSE NOT_IN_TMUX)
             /\ calls = <<>>

\* get_pane_contents has rejected "A:5" while running inside a pane.
C3_Witness ==
    /\ op = "get_pane_contents" /\ pc = "done"
    /\ current_pane_id # None
    /\ req.target = <<"A", ":", "5">>
    /\ result = InvalidTarget(<<"A", ":", "5">>)
    /\ calls = <<>>

\* C4: get_window_contents hands list-panes the ambient 'session:window' when
\* the target is absent, '{session}:{target}' when the target has no ':', and
\* the target itself when it has one; and it issues that list-panes whenever
\* the target is resolvable.
C4_WindowTargetResolution ==
    op = "get_window_contents" =>
        LET lists == CallsOf("list-panes")
        IN  /\ \A i \in DOMAIN lists :
                  /\ req.target = None =>
                        \E s \in SessionNames, w \in WindowIndexes :
                            /\ LookedUp(s \o <<":">> \o w)
                            /\ lists[i].t = s \o <<":">> \o w
                  /\ (req.target # None /\ ~Contains(Unwrap(req.target), ":")) =>
                        \E s \in SessionNames :
                            /\ LookedUp(s)
                            /\ lists[i].t = s \o <<":">> \o Unwrap(req.target)
                  /\ (req.target # None /\ Contains(Unwrap(req.target), ":")) =>
                        /\ lists[i].t = Unwrap(req.target)
                        /\ calls[1] = lists[i]
            /\ Len(lists) <= 1
            /\ (pc = "done"
                  /\ (LookupSucceeded
                        \/ (req.target # None /\ Contains(Unwrap(req.target), ":"))))
                  => Len(lists) = 1

\* The window index "5" was listed as "A:5" and the absent target as the
\* ambient window: here the first.
C4_Witness ==
    /\ op = "get_window_contents" /\ pc = "done"
    /\ req.target = Some(<<"5">>)
    /\ LookedUp(<<"A">>)
    /\ calls[2].cmd = "list-panes"
    /\ calls[2].t = <<"A", ":", "5">>

\* C5: a target the resolver of get_pane_contents produced is trimmed and
\* takes the already-qualified branch when fed in again, the branch that
\* passes it on unchanged without an ambient lookup; and a target the
\* resolver of get_window_contents produced takes the ':' arm.
C5_ResolutionIdempotent ==
    /\ op = "get_pane_contents" =>
          \A i \in DOMAIN calls :
              calls[i].cmd = "capture-pane" =>
                  /\ Trim(calls[i].t) = calls[i].t
                  /\ PaneBranch(Trim(calls[i].t)) = "qualified"
    /\ op = "get_window_contents" =>
          \A i \in DOMAIN calls :
              calls[i].cmd = "list-panes" =>
                  WindowBranch(Some(calls[i].t)) = "qualified"

\* A target that needed the ambient lookup was resolved and captured.
C5_Witness ==
    /\ op = "get_pane_contents" /\ pc = "done"
    /\ req.target = <<"5", ".", "5">>
    /\ LookupSucceeded
    /\ Last(calls).cmd = "capture-pane"
    /\ Last(calls).t # req.target

\* The lines of a pane listing that name a pane (a non-empty first field).
PaneLinesOf(stdout) ==
    SelectSeq(Lines(stdout), LAMBDA l : Head(Split(l, "\t")) # <<>>)

\* The block the claim C6 states for listing line l and the result r of its
\* capture.
ClaimedBlock(l, r) ==
    LET pane == Head(Split(l, "\t"))
    IN  <<"=== Pane ">> \o pane \o <<" (">> \o l \o <<") ===", "\n">>
          \o (IF r.ok THEN r.text
              ELSE <<"Error capturing ">> \o pane \o <<": ">> \o r.text \o <<"\n">>)
          \o <<"\n">>

\* C6: get_window_contents returns, for a listing of k panes, exactly k
\* blocks in listing order, block i made of line i's header, the contents of
\* pane i or, when its capture failed, the inline error text, and a newline:
\* every pane is captured whatever happened to the others, and a block depends
\* on its own line and capture alone.
C6_PerPaneBlocks ==
    (op = "get_window_contents" /\ pc = "done"
       /\ \E i \in DOMAIN calls : calls[i].cmd = "list-panes" /\ calls[i].res.ok)
      => LET listing == CallsOf("list-panes")[1]
             panes == PaneLinesOf(listing.res.text)
             caps == CallsOf("capture-pane")
         IN  /\ Len(caps) = Len(panes)
             /\ \A i \in DOMAIN caps : caps[i].t = Head(Split(panes[i], "\t"))
             /\ result = Concat([i \in DOMAIN panes |-> ClaimedBlock(panes[i], caps[i].res)])

\* Two panes, the first captured, the capture of the second failed.
C6_Witness ==
    /\ op = "get_window_contents" /\ pc = "done"
    /\ Len(CallsOf("capture-pane")) = 2
    /\ CallsOf("capture-pane")[1].res.ok
    /\ ~CallsOf("capture-pane")[2].res.ok

\* ---- the claims about failures and about list_windows

FailedCalls == {i \in DOMAIN calls : calls[i].res # Pending /\ ~calls[i].res.ok}

\* s holds sub as a contiguous part.
ContainsText(s, sub) ==
    \E k \in 0..(Len(s) - Len(sub)) : SubSeq(s, k + 1, k + Len(sub)) = sub

\* The failures the listings discard: the ambient lookup of list_windows and
\* the per-item queries of the verbose listings.
IsDiscarded(c) ==
    \/ op = "list_windows" /\ c.cmd = "display-message"
    \/ op = "list_sessions" /\ c.cmd = "list-windows"
    \/ op \in {"list_sessions", "list_windows"} /\ c.cmd = "list-panes"

\* C7 as stated, in the reading most favourable to it: no failure is
\* dropped, the text of every failed invocation is in the returned text (as
\* the entire result, or in the failing item's slot of an aggregate).
C7_NoFailureDropped ==
    pc = "done" =>
        \A i \in FailedCalls : ContainsText(result, calls[i].res.text)

CaptureError(c) ==
    <<"Error capturing ">> \o c.t \o <<": ">> \o c.res.text \o <<"\n">>

\* C7, amended: the text of a failed invocation is the entire result, except
\* that a failed capture-pane appears as 'Error capturing {target}: {text}'
\* (the whole result of get_pane_contents, inline in get_window_contents) and
\* that the listings discard a failed ambient lookup (list_windows) and a
\* failed per-session list-windows or per-window list-panes, print no error
\* text and still query every remaining item.
C7_FailureReportedOrDiscarded ==
    pc = "done" =>
        /\ \A i \in FailedCalls :
              IF calls[i].cmd = "capture-pane"
              THEN /\ ContainsText(result, CaptureError(calls[i]))
                   /\ op = "get_pane_contents" => result = CaptureError(calls[i])
              ELSE IF IsDiscarded(calls[i])
              THEN ~ContainsText(result, calls[i].res.text)
              ELSE /\ result = calls[i].res.text
                   /\ i = Len(calls)
        /\ (op = "list_windows" /\ Verbose(req) /\ calls[1].res.ok)
              => Len(CallsOf("list-panes")) = Len(Fields(calls[1].res.text, 5))
        /\ (op = "list_sessions" /\ Verbose(req) /\ calls[1].res.ok)
              => Len(CallsOf("list-windows")) = Len(Fields(calls[1].res.text, 3))

\* The verbose list_sessions went on to its second session after the
\* list-windows of the first failed.
C7_Witness ==
    /\ op = "list_sessions" /\ pc = "done"
    /\ Len(calls) >= 3
    /\ calls[2].cmd = "list-windows" /\ ~calls[2].res.ok
    /\ calls[3].cmd = "list-windows" /\ calls[3].res.ok

EndsWith(s, suffix) ==
    Len(s) >= Len(suffix) /\ SubSeq(s, Len(s) - Len(suffix) + 1, Len(s)) = suffix

\* The ambient session:window the lookup of list_windows reported: empty
\* when there was no lookup or it failed.
AmbientWindows ==
    {s \o <<":">> \o w : s \in SessionNames, w \in WindowIndexes}
        \cap {x \in {s \o <<":">> \o w : s \in SessionNames, w \in WindowIndexes} :
                 /\ Len(calls) >= 2
                 /\ calls[2].cmd = "display-message"
                 /\ calls[2].res = Ok(x \o <<"\n">>)}

\* For the verbose listing, line by line (a window's line, then the lines of
\* its panes when they could be fetched), whether the line is to carry the
\* marker: a window's line if mark_windows and the window is the ambient one;
\* a pane's line if its id is the ambient pane's and, unless
\* in_any_window, its window is the ambient one.
VerboseMarks(mark_windows, in_any_window) ==
    LET ws == Fields(calls[1].res.text, 5)
        fetches == CallsOf("list-panes")
        ambient(i) == (ws[i][1] \o <<":">> \o ws[i][2]) \in AmbientWindows
        panes(i) == IF fetches[i].res.ok THEN Fields(fetches[i].res.text, 6) ELSE <<>>
    IN  Concat([i \in DOMAIN ws |->
                   <<mark_windows /\ ambient(i)>>
                     \o [k \in DOMAIN panes(i) |->
                            /\ current_pane_id = Some(panes(i)[k][6])
                            /\ (in_any_window \/ ambient(i))]])

\* For the non-verbose listing: a window's line carries the marker iff the
\* window is the ambient one.
PlainMarks ==
    LET ws == Fields(calls[1].res.text, 5)
    IN  [i \in DOMAIN ws |-> (ws[i][1] \o <<":">> \o ws[i][2]) \in AmbientWindows]

MarkedAs(marks) ==
    /\ Len(Lines(result)) = Len(marks)
    /\ \A k \in DOMAIN marks : EndsWith(Lines(result)[k], CURRENT_MARK) <=> marks[k]

\* C10 as stated: in both modes exactly the lines of the windows whose
\* session:index is the ambient session:window end in '<-- current', and in
\* verbose mode so does the line of the pane with the ambient pane id (read
\* as the pane of the ambient window, where tmux keeps it).
C10_CurrentMarkedInBothModes ==
    (op = "list_windows" /\ pc = "done" /\ calls[1].res.ok) =>
        IF Verbose(req) THEN MarkedAs(VerboseMarks(TRUE, FALSE))
        ELSE MarkedAs(PlainMarks)

\* C10, amended: non-verbose, exactly the lines of the windows whose
\* session:index is the ambient session:window the lookup reported end in
\* '<-- current'; verbose, no window line does, and exactly the pane lines
\* do that are listed under such a window and carry the ambient pane id.
\* With no ambient pane, or a failed lookup, nothing is marked.
C10_CurrentMarked ==
    (op = "list_windows" /\ pc = "done" /\ calls[1].res.ok) =>
        /\ IF Verbose(req) THEN MarkedAs(VerboseMarks(FALSE, FALSE))
           ELSE MarkedAs(PlainMarks)
        /\ AmbientWindows = {} =>
              \A k \in DOMAIN Lines(result) : ~EndsWith(Lines(result)[k], CURRENT_MARK)

\* A verbose listing of the ambient window, which holds the ambient pane:
\* its pane line is marked.
C10_Witness ==
    /\ op = "list_windows" /\ pc = "done" /\ calls[1].res.ok
    /\ Verbose(req)
    /\ Len(Fields(calls[1].res.text, 5)) = 1
    /\ AmbientWindows = {<<"A", ":", "5">>}
    /\ \E k \in DOMAIN Lines(result) : EndsWith(Lines(result)[k], CURRENT_MARK)

\* ---- the claim about the sequencing of a request's invocations

\* s is the beginning of t.
IsPrefix(s, t) == Len(s) <= Len(t) /\ s = SubSeq(t, 1, Len(s))

\* The targets of the invocations of cmd among cs, in order of issue.
TargetsOf(cs, cmd) ==
    LET of == SelectSeq(cs, LAMBDA x : x.cmd = cmd)
    IN  [i \in DOMAIN of |-> of[i].t]

\* The positions in cs of the invocations of cmd, in order of issue.
PositionsOf(cs, cmd) ==
    SelectSeq([i \in DOMAIN cs |-> i], LAMBDA i : cs[i].cmd = cmd)

Succeeded(x) == x.res # Pending /\ x.res.ok

\* The invocations an operation makes at most once whatever tmux replies.
OncePerRequest(o) ==
    IF o \in {"get_current_session", "get_current_window"} THEN {"display-message"}
    ELSE IF o = "get_pane_contents" THEN {"display-message", "capture-pane"}
    ELSE IF o = "get_window_contents" THEN {"display-message", "list-panes"}
    ELSE IF o = "list_windows" THEN {"display-message", "list-windows"}
    ELSE IF o = "list_sessions" THEN {"list-sessions"}
    ELSE {}

\* The invocations an operation makes once per row of an earlier reply.
PerRow(o) ==
    IF o = "get_window_contents" THEN {"capture-pane"}
    ELSE IF o = "list_windows" THEN {"list-panes"}
    ELSE IF o = "list_sessions" THEN {"list-windows", "list-panes"}
    ELSE {}

\* The targets the per-row invocations of request c must have, in order:
\* those of the rows of the reply to the invocation at position k of c.
RowTargets(c, k) ==
    LET reply == c.calls[k].res.text
    IN  IF c.op = "get_window_contents"
        THEN LET ls == PaneLinesOf(reply)
             IN  [i \in DOMAIN ls |-> Head(Split(ls[i], "\t"))]
        ELSE IF c.op = "list_windows"
        THEN LET fs == Fields(reply, 5)
             IN  [i \in DOMAIN fs |-> fs[i][1] \o <<":">> \o fs[i][2]]
        ELSE IF c.calls[k].cmd = "list-sessions"
        THEN LET fs == Fields(reply, 3)
             IN  [i \in DOMAIN fs |-> Some(fs[i][1] \o <<":">>)]
        ELSE LET fs == Fields(reply, 3)
             IN  [i \in DOMAIN fs |-> Unwrap(c.calls[k].t) \o fs[i][1]]

\* The per-row invocations of cmd that request c issued between position k
\* and position `end` follow the rows of the reply at k: one invocation per
\* row, in row order, none before the reply is there, none when it failed,
\* and all of them once the handler is past them.
FollowsRows(c, k, end, cmd, past) ==
    LET issued == TargetsOf(SubSeq(c.calls, k + 1, end), cmd)
        rows_of_k == IF Succeeded(c.calls[k]) THEN RowTargets(c, k) ELSE <<>>
    IN  /\ IsPrefix(issued, rows_of_k)
        /\ past => issued = rows_of_k

\* The sequencing of the invocations of one request.
Sequential(c) ==
    LET n == Len(c.calls)
        in_order(cmd) ==
            LET at == PositionsOf(c.calls, cmd)
            IN  [i \in DOMAIN at |->
                    [from |-> at[i],
                     to |-> IF i < Len(at) THEN at[i + 1] - 1 ELSE n,
                     past |-> i < Len(at) \/ c.pc = "done"]]
    IN  /\ \A i \in 1..n : c.calls[i].res = Pending => i = n
        /\ \A i \in 1..n : c.calls[i].cmd \in OncePerRequest(c.op) \cup PerRow(c.op)
        /\ \A cmd \in OncePerRequest(c.op) \ PerRow(c.op) :
              Len(PositionsOf(c.calls, cmd)) <= 1
        /\ c.op = "get_window_contents" =>
              \A s \in DOMAIN in_order("list-panes") :
                 LET x == in_order("list-panes")[s]
                 IN  FollowsRows(c, x.from, x.to, "capture-pane", x.past)
        /\ c.op = "list_windows" =>
              /\ n > 0 => /\ c.calls[1].cmd = "list-windows"
                          /\ Verbose(c.req) =>
                                FollowsRows(c, 1, n, "list-panes", c.pc = "done")
              /\ ~Verbose(c.req) => TargetsOf(c.calls, "list-panes") = <<>>
        /\ c.op = "list_sessions" =>
              /\ n > 0 => /\ c.calls[1].cmd = "list-sessions"
                          /\ Verbose(c.req) =>
                                FollowsRows(c, 1, n, "list-windows", c.pc = "done")
              /\ ~Verbose(c.req) => n <= 1
              /\ \A s \in DOMAIN in_order("list-windows") :
                    LET x == in_order("list-windows")[s]
                    IN  FollowsRows(c, x.from, x.to, "list-panes", x.past)

\* C11: the tmux invocations of a request are sequential and attempted once
\* each, and so for each of the requests served at the same time: only the
\* last invocation of a request can be outstanding, so that the next is issued
\* after the previous returned; an invocation the operation makes once is in
\* the request's log at most once, also when it failed; and the per-session
\* list-windows, per-window list-panes and per-pane capture-pane are one per
\* row of the reply they depend on, in row order, none for a failed reply.
C11_SequentialOncePerRow == \A c \in Served : Sequential(c)

\* Both requests have an invocation outstanding at the same moment, and the
\* running one, a verbose list_sessions, has gone on to its second session
\* after the list-windows of the first failed.
C11_Witness ==
    /\ parked # None
    /\ Unwrap(parked).calls # <<>>
    /\ Last(Unwrap(parked).calls).res = Pending
    /\ op = "list_sessions"
    /\ Len(calls) = 3
    /\ calls[2].cmd = "list-windows" /\ calls[2].res # Pending /\ ~calls[2].res.ok
    /\ calls[3].cmd = "list-windows" /\ calls[3].res = Pending
    /\ calls[3].t # calls[2].t

\* ---- the claim about under-length reply lines

\* The number of fields a format template names.
FieldCount(format) ==
    IF format = FMT_WINDOW_PANES THEN 4
    ELSE IF format = FMT_PANES THEN 6
    ELSE IF format = FMT_WINDOWS THEN 5
    ELSE 3

IsListing(x) == x.cmd \in {"list-sessions", "list-windows", "list-panes"}

\* The lines of the reply to listing x that are not under-length.
WellFormed(x) ==
    SelectSeq(Lines(x.res.text),
              LAMBDA l : Len(Split(l, "\t")) >= FieldCount(x.arg))

\* The lines of the reply to listing x that are to be processed: the
\* well-formed ones, or, of a pane listing of get_window_contents when
\* by_first_field, those with a non-empty first field.
Kept(x, by_first_field) ==
    IF by_first_field /\ x.arg = FMT_WINDOW_PANES
    THEN PaneLinesOf(x.res.text)
    ELSE WellFormed(x)

\* The processed lines of all the replies of the request, in order.
KeptLines(by_first_field) ==
    Concat([i \in DOMAIN calls |->
               IF IsListing(calls[i]) /\ Succeeded(calls[i])
               THEN Kept(calls[i], by_first_field) ELSE <<>>])

FirstFields(ls) == [i \in DOMAIN ls |-> Head(Split(ls[i], "\t"))]

\* The header blocks in the result of get_window_contents.
HeaderCount == Cardinality({i \in DOMAIN result : result[i] = "=== Pane "})

\* Exactly the processed lines of a reply produce a row or header block and
\* a further invocation; the other lines produce neither.
ProcessesKept(by_first_field) ==
    LET listed(cmd) ==
            Concat([i \in DOMAIN calls |->
                       IF calls[i].cmd = cmd /\ Succeeded(calls[i])
                       THEN Kept(calls[i], by_first_field) ELSE <<>>])
        kept == KeptLines(by_first_field)
    IN  IF op = "get_window_contents"
        THEN /\ HeaderCount = Len(kept)
             /\ \A i \in DOMAIN kept : ContainsText(result, PaneHeader(kept[i]))
             /\ TargetsOf(calls, "capture-pane") = FirstFields(kept)
        ELSE /\ Len(Lines(result)) = Len(kept)
             /\ (op = "list_windows" /\ Verbose(req)) =>
                  Len(TargetsOf(calls, "list-panes")) = Len(listed("list-windows"))
             /\ (op = "list_sessions" /\ Verbose(req)) =>
                  /\ TargetsOf(calls, "list-windows")
                       = [i \in DOMAIN listed("list-sessions") |->
                             Some(FirstFields(listed("list-sessions"))[i] \o <<":">>)]
                  /\ Len(TargetsOf(calls, "list-panes")) = Len(listed("list-windows"))

Listed ==
    /\ op \in {"get_window_contents", "list_windows", "list_sessions"}
    /\ pc = "done"
    /\ \E i \in DOMAIN calls : IsListing(calls[i]) /\ Succeeded(calls[i])

\* C12 as stated: every topology query, the list-panes of
\* get_window_contents included, processes exactly the reply lines that have
\* as many tab-separated fields as the format names; an under-length line
\* gives no row, no header block and no further invocation.
C12_UnderLengthDiscarded == Listed => ProcessesKept(FALSE)

\* C12, amended: list-sessions, list-windows and the list-panes of
\* fetch_panes process exactly the reply lines with as many fields as the
\* format names; the list-panes of get_window_contents processes exactly the
\* lines whose first field is not empty, whatever their number of fields, each
\* with a header block and a capture-pane.
C12_DiscardedByFieldCountOrFirstField == Listed => ProcessesKept(TRUE)

\* get_window_contents was given a listing of a well-formed line, a
\* two-field line that names a pane and a two-field line that names none,
\* and captured two panes.
C12_Witness ==
    /\ op = "get_window_contents" /\ pc = "done"
    /\ \E i \in DOMAIN calls :
          /\ calls[i].cmd = "list-panes" /\ Succeeded(calls[i])
          /\ Len(Lines(calls[i].res.text)) = 3
          /\ Len(WellFormed(calls[i])) = 1
          /\ Len(PaneLinesOf(calls[i].res.text)) = 2
    /\ Len(TargetsOf(calls, "capture-pane")) = 2

\* ------------------------------------------------- the pure-function runs

NoRequest ==
    /\ calls = <<>>
    /\ target = <<>>
    /\ current_window = None
    /\ rows = <<>>
    /\ idx = 0
    /\ subs = <<>>
    /\ sidx = 0
    /\ out = <<>>
    /\ result = <<>>
    /\ budget = 0
    /\ parked = None

TextChars == {"a", "U+00E9"}

InitTruncate ==
    /\ current_pane_id = None
    /\ op = "truncate"
    /\ pc = "start"
    /\ req \in [s : SeqsUpTo(TextChars, MaxStrLen), max : 0..MaxTruncN]
    /\ NoRequest

ApplyTruncate ==
    /\ op = "truncate"
    /\ pc = "start"
    /\ result' = truncate(req.s, req.max)
    /\ pc' = "done"
    /\ UNCHANGED <<current_pane_id, op, req, calls, target, current_window,
                   rows, idx, subs, sidx, out, budget, parked>>

SpecTruncate == InitTruncate /\ [][ApplyTruncate]_vars

Cells == SeqsUpTo(TextChars, MaxCellLen)
Tables == SeqsUpTo(SeqsUpTo(Cells, MaxRowCells), MaxTableRows)

InitAlign ==
    /\ current_pane_id = None
    /\ op = "align_columns"
    /\ pc = "start"
    /\ req \in [table : Tables]
    /\ NoRequest

ApplyAlign ==
    /\ op = "align_columns"
    /\ pc = "start"
    /\ result' = align_columns(req.table)
    /\ pc' = "done"
    /\ UNCHANGED <<current_pane_id, op, req, calls, target, current_window,
                   rows, idx, subs, sidx, out, budget, parked>>

SpecAlign == InitAlign /\ [][ApplyAlign]_vars

\* ------------------------------------------------------------ claims

\* C8: truncate(s, n) with n >= 4 returns at most n characters; a string of
\* at most n characters is returned unchanged; a longer one becomes its first
\* n-3 characters followed by "...".
C8_TruncateContract ==
    (op = "truncate" /\ pc = "done" /\ req.max >= 4) =>
        /\ Len(result) <= req.max
        /\ (Len(req.s) <= req.max => result = req.s)
        /\ (Len(req.s) > req.max =>
               /\ SubSeq(result, 1, req.max - 3) = SubSeq(req.s, 1, req.max - 3)
               /\ SubSeq(result, req.max - 2, Len(result)) = <<".", ".", ".">>)

\* A string with a multi-byte character, longer than n, has been cut.
C8_Witness ==
    /\ op = "truncate" /\ pc = "done" /\ req.max >= 4
    /\ Len(req.s) > req.max
    /\ Contains(req.s, "U+00E9")
    /\ result # req.s

\* The padded width the claim C9 states: the maximum character count of the
\* cells at column i.
ClaimedWidth(table, i) ==
    MaxOf({CharCount(table[r][i]) : r \in {x \in DOMAIN table : i <= Len(table[x])}})

\* C9: align_columns returns one line per row, in order; every cell but the
\* row's last is padded to the maximum character count of its column, the last
\* cell is unpadded, and the cells are joined by exactly two spaces.
C9_AlignContract ==
    (op = "align_columns" /\ pc = "done") =>
        /\ Len(result) = Len(req.table)
        /\ \A r \in DOMAIN req.table :
              result[r] =
                 Join([i \in DOMAIN req.table[r] |->
                          IF i < Len(req.table[r])
                          THEN req.table[r][i]
                                 \o Spaces(ClaimedWidth(req.table, i)
                                             - CharCount(req.table[r][i]))
                          ELSE req.table[r][i]],
                      <<" ", " ">>)

====
